---------------------------- MODULE Spec2Model ----------------------------
(* A model of the payout dashboard (app.py): the field parsers              *)
(* parse_currency, extract_country and load_data.parse_date, the loader     *)
(* load_data and the Streamlit script main with its year filter.            *)
(*                                                                          *)
(* Text is a sequence of characters, each character a string atom; the two  *)
(* non-ASCII characters used are named "EURO" and "EMDASH".  A missing      *)
(* value (pandas NA / NaN / None / NaT) is Null.  A Python float is modelled*)
(* as an exact decimal <<"dec", m, e>> standing for m / 10^e, normalised so *)
(* that m has no trailing zero while e > 0; binary rounding is not modelled.*)
(* Every value is a tuple, so that values of different kinds can be compared*)
EXTENDS Integers, Sequences, FiniteSets

VARIABLES
    fn_in,          \* argument of the parser under test
    fn_out,         \* its result, Pending before the call
    pc,             \* position of the Streamlit script
    source,         \* the CSV as read by pd.read_csv
    cache,          \* st.cache_data entry of load_data(CSV_PATH)
    year_filter,    \* value of the sidebar multiselect
    view            \* what the last run of main displayed

vars == <<fn_in, fn_out, pc, source, cache, year_filter, view>>

Null == <<"Null">>
Pending == <<"Pending">>
Raise == <<"Raise">>

-----------------------------------------------------------------------------
(* Characters and text helpers (Python str methods)                         *)

DigitChars == <<"0", "1", "2", "3", "4", "5", "6", "7", "8", "9">>

Digits == {DigitChars[i] : i \in 1..Len(DigitChars)}

DigitVal(c) == (CHOOSE i \in 1..Len(DigitChars) : DigitChars[i] = c) - 1

Whitespace == {" ", "\t"}

IsDigit(c) == c \in Digits

IsSpace(c) == c \in Whitespace

\* str.replace(ch, '')
RemoveChar(s, ch) == SelectSeq(s, LAMBDA c : c # ch)

\* str.strip()
Strip(s) ==
    LET keep == {i \in 1..Len(s) : ~IsSpace(s[i])}
    IN  IF keep = {} THEN <<>>
        ELSE LET lo == CHOOSE i \in keep : \A j \in keep : i <= j
                 hi == CHOOSE i \in keep : \A j \in keep : j <= i
             IN  SubSeq(s, lo, hi)

\* Greatest k >= from such that s[from..k-1] are all in set `cls`
RECURSIVE SkipWhile(_, _, _)
SkipWhile(s, from, cls) ==
    IF from <= Len(s) /\ s[from] \in cls THEN SkipWhile(s, from + 1, cls) ELSE from

Pow10(n) == IF n = 0 THEN 1 ELSE IF n = 1 THEN 10 ELSE IF n = 2 THEN 100
            ELSE IF n = 3 THEN 1000 ELSE IF n = 4 THEN 10000
            ELSE IF n = 5 THEN 100000 ELSE 1000000

RECURSIVE DigitsToNat(_)
DigitsToNat(s) ==
    IF s = <<>> THEN 0
    ELSE 10 * DigitsToNat(SubSeq(s, 1, Len(s) - 1)) + DigitVal(s[Len(s)])

\* str(n) of a natural number
RECURSIVE NatDigits(_)
NatDigits(n) ==
    IF n < 10 THEN <<DigitChars[n + 1]>>
    ELSE NatDigits(n \div 10) \o <<DigitChars[(n % 10) + 1]>>

\* Zero-padding to a width, as in %04d
RECURSIVE Pad(_, _)
Pad(w, width) == IF Len(w) < width THEN Pad(<<"0">> \o w, width) ELSE w

-----------------------------------------------------------------------------
(* Decimal values                                                           *)

RECURSIVE Dec(_, _)
Dec(m, e) == IF e > 0 /\ m % 10 = 0 THEN Dec(m \div 10, e - 1) ELSE <<"dec", m, e>>

DecM(v) == v[2]

DecE(v) == v[3]

IsDec(v) == Len(v) = 3 /\ v[1] = "dec"

Zero == Dec(0, 0)

Max2(a, b) == IF a >= b THEN a ELSE b

\* The numerator of v over the denominator 10^e
Scaled(v, e) == DecM(v) * Pow10(e - DecE(v))

Add(a, b) ==
    LET e == Max2(DecE(a), DecE(b))
    IN  Dec(Scaled(a, e) + Scaled(b, e), e)

Less(a, b) ==
    LET e == Max2(DecE(a), DecE(b))
    IN  Scaled(a, e) < Scaled(b, e)

-----------------------------------------------------------------------------
(* parse_currency                                                           *)

\* float(tok) for a token made of '-', whitespace, digits and '.':
\* an optional sign directly followed by digits and an optional fraction;
\* anything else raises ValueError.
PyFloat(tok) ==
    LET neg  == tok # <<>> /\ tok[1] = "-"
        body == IF neg THEN SubSeq(tok, 2, Len(tok)) ELSE tok
        ie   == SkipWhile(body, 1, Digits)
        ip   == SubSeq(body, 1, ie - 1)
        rest == SubSeq(body, ie, Len(body))
        fp   == IF rest = <<>> THEN <<>> ELSE SubSeq(rest, 2, Len(rest))
        ok   == /\ ip # <<>>
                /\ \/ rest = <<>>
                   \/ rest[1] = "." /\ fp # <<>> /\ \A i \in 1..Len(fp) : IsDigit(fp[i])
        mag  == DigitsToNat(ip \o fp)
    IN  IF ~ok THEN Raise
        ELSE Dec(IF neg THEN 0 - mag ELSE mag, Len(fp))

\* End (exclusive) of the match of  -?\$?\s*\d+(?:\.\d+)?  tried at position i,
\* 0 when the pattern does not match there.  Every quantifier is greedy and no
\* shorter choice can make the digits match, so the greedy path decides.
MatchNumberAt(s, i) ==
    LET a  == IF i <= Len(s) /\ s[i] = "-" THEN i + 1 ELSE i
        b  == IF a <= Len(s) /\ s[a] = "$" THEN a + 1 ELSE a
        c  == SkipWhile(s, b, Whitespace)
        d  == SkipWhile(s, c, Digits)
        f  == IF d < Len(s) /\ s[d] = "." /\ IsDigit(s[d + 1])
              THEN SkipWhile(s, d + 1, Digits) ELSE d
    IN  IF d = c THEN 0 ELSE f

\* re.match in place of re.search: the pattern anchored at the first character
SearchNumberAnchored(s) ==
    IF MatchNumberAt(s, 1) # 0 THEN SubSeq(s, 1, MatchNumberAt(s, 1) - 1) ELSE Null

\* re.search: the leftmost position where the pattern matches; group(1)
SearchNumber(s) ==
    LET hits == {i \in 1..Len(s) : MatchNumberAt(s, i) # 0}
    IN  IF hits = {} THEN Null
        ELSE LET i == CHOOSE i \in hits : \A j \in hits : i <= j
             IN  SubSeq(s, i, MatchNumberAt(s, i) - 1)

\* The try/except around float(): a ValueError becomes None
FloatOrNone(tok) == IF PyFloat(tok) = Raise THEN Null ELSE PyFloat(tok)

\* s.replace(',', '') skipped
StripCommasLost(s) == s

StripCommas(s) == RemoveChar(s, ",")

parse_currency(value) ==
    IF value = Null THEN Null
    ELSE LET s == StripCommas(value)
             m == SearchNumber(s)
         IN  IF m = Null THEN Null
             ELSE FloatOrNone(Strip(RemoveChar(m, "$")))

-----------------------------------------------------------------------------
(* extract_country                                                          *)

\* str.split(sep): the pieces between the separators, empty pieces included
RECURSIVE Split(_, _)
Split(s, sep) ==
    LET seps == {i \in 1..Len(s) : s[i] = sep}
    IN  IF seps = {} THEN <<s>>
        ELSE LET i == CHOOSE i \in seps : \A j \in seps : i <= j
             IN  <<SubSeq(s, 1, i - 1)>> \o Split(SubSeq(s, i + 1, Len(s)), sep)

RECURSIVE MapStrip(_)
MapStrip(ps) == IF ps = <<>> THEN <<>> ELSE <<Strip(ps[1])>> \o MapStrip(Tail(ps))

\* [p.strip() for p in s.split(',') if p.strip()]
Parts(s) == SelectSeq(MapStrip(Split(s, ",")), LAMBDA p : p # <<>>)

Txt_Unknown == <<"U", "n", "k", "n", "o", "w", "n">>
Txt_USA == <<"U", "S", "A">>
Txt_US == <<"U", "S">>
Txt_U_S_A == <<"U", ".", "S", ".", "A", ".">>
Txt_UnitedStates == <<"U", "n", "i", "t", "e", "d", " ", "S", "t", "a", "t", "e", "s">>
Txt_UK == <<"U", "K">>
Txt_U_K == <<"U", ".", "K", ".">>
Txt_UnitedKingdom == <<"U", "n", "i", "t", "e", "d", " ", "K", "i", "n", "g", "d", "o", "m">>

\* The dict `mapping` as a set of <<key, value>> pairs
mapping ==
    {<<Txt_USA, Txt_USA>>, <<Txt_US, Txt_USA>>, <<Txt_U_S_A, Txt_USA>>,
     <<Txt_UnitedStates, Txt_USA>>,
     <<Txt_UK, Txt_UK>>, <<Txt_U_K, Txt_UK>>, <<Txt_UnitedKingdom, Txt_UK>>}

\* parts[0] in place of parts[-1]
FirstPart(parts) == parts[1]

LastPart(parts) == parts[Len(parts)]

extract_country(location) ==
    IF location = Null THEN Txt_Unknown
    ELSE LET parts == Parts(location)
         IN  IF parts = <<>> THEN Txt_Unknown
             ELSE LET last == LastPart(parts)
                  IN  IF \E kv \in mapping : kv[1] = last
                      THEN (CHOOSE kv \in mapping : kv[1] = last)[2]
                      ELSE last

-----------------------------------------------------------------------------
(* load_data.parse_date: datetime.strptime over three formats               *)

UpperChars == <<"A", "B", "C", "D", "E", "F", "G", "H", "I", "J", "K", "L", "M",
                "N", "O", "P", "Q", "R", "S", "T", "U", "V", "W", "X", "Y", "Z">>

LowerChars == <<"a", "b", "c", "d", "e", "f", "g", "h", "i", "j", "k", "l", "m",
                "n", "o", "p", "q", "r", "s", "t", "u", "v", "w", "x", "y", "z">>

LowerChar(c) ==
    IF \E i \in 1..Len(UpperChars) : UpperChars[i] = c
    THEN LowerChars[CHOOSE i \in 1..Len(UpperChars) : UpperChars[i] = c]
    ELSE c

\* Abbreviated month names of the C locale, lower case as strptime compares them
MonthAbbr ==
    <<<<"j", "a", "n">>, <<"f", "e", "b">>, <<"m", "a", "r">>, <<"a", "p", "r">>,
      <<"m", "a", "y">>, <<"j", "u", "n">>, <<"j", "u", "l">>, <<"a", "u", "g">>,
      <<"s", "e", "p">>, <<"o", "c", "t">>, <<"n", "o", "v">>, <<"d", "e", "c">>>>

\* The text s[pos .. pos+n-1], or <<>> when s is too short
Peek(s, pos, n) == IF pos + n - 1 <= Len(s) THEN SubSeq(s, pos, pos + n - 1) ELSE <<>>

AllDigits(w) == w # <<>> /\ \A i \in 1..Len(w) : IsDigit(w[i])

\* <<n, 0>>, <<n-1, 0>>, ..., <<1, 0>>: the lengths a greedy \s+ tries
RECURSIVE Shrinking(_)
Shrinking(n) == IF n = 0 THEN <<>> ELSE <<<<n, 0>>>> \o Shrinking(n - 1)

\* The ways a format item matches at s[pos], as <<length, value>> in the order
\* the regular expression built by strptime tries them:
\*   %d  3[0-1]|[1-2]\d|0[1-9]|[1-9]| [1-9]      %m  1[0-2]|0[1-9]|[1-9]
\*   %Y  \d\d\d\d      %b  a month abbreviation, any case
\*   ' ' \s+ (greedy)    any other character: itself
Alts(item, s, pos) ==
    LET w1 == Peek(s, pos, 1)
        w2 == Peek(s, pos, 2)
        w3 == Peek(s, pos, 3)
        w4 == Peek(s, pos, 4)
        two == IF AllDigits(w2) THEN DigitsToNat(w2) ELSE 0
        one == IF AllDigits(w1) THEN DigitsToNat(w1) ELSE 0
        low3 == IF w3 = <<>> THEN <<>>
                ELSE <<LowerChar(w3[1]), LowerChar(w3[2]), LowerChar(w3[3])>>
        ws == SkipWhile(s, pos, Whitespace) - pos
    IN  CASE item = "%d" ->
               (IF two \in 1..31 THEN <<<<2, two>>>> ELSE <<>>)
               \o (IF one \in 1..9 THEN <<<<1, one>>>> ELSE <<>>)
               \o (IF w2 # <<>> /\ w2[1] = " " /\ AllDigits(<<w2[2]>>) /\ w2[2] # "0"
                   THEN <<<<2, DigitVal(w2[2])>>>> ELSE <<>>)
          [] item = "%m" ->
               (IF two \in 1..12 THEN <<<<2, two>>>> ELSE <<>>)
               \o (IF one \in 1..9 THEN <<<<1, one>>>> ELSE <<>>)
          [] item = "%Y" ->
               IF AllDigits(w4) THEN <<<<4, DigitsToNat(w4)>>>> ELSE <<>>
          [] item = "%b" ->
               IF \E i \in 1..12 : MonthAbbr[i] = low3
               THEN <<<<3, CHOOSE i \in 1..12 : MonthAbbr[i] = low3>>>> ELSE <<>>
          [] item = " " -> Shrinking(ws)
          [] OTHER -> IF w1 = <<item>> THEN <<<<1, 0>>>> ELSE <<>>

\* The fields found so far, <<"date", year, month, day>>
Put(acc, item, v) ==
    CASE item = "%Y" -> [acc EXCEPT ![2] = v]
      [] item \in {"%m", "%b"} -> [acc EXCEPT ![3] = v]
      [] item = "%d" -> [acc EXCEPT ![4] = v]
      [] OTHER -> acc

NoMatch == <<"NoMatch">>

\* re.match of the format's regular expression from item k on, with backtracking:
\* <<fields, end>> of the first way that matches, or NoMatch
RECURSIVE MatchFmt(_, _, _, _, _), TryAlts(_, _, _, _, _, _, _)
MatchFmt(s, pos, fmt, k, acc) ==
    IF k > Len(fmt) THEN <<acc, pos>>
    ELSE TryAlts(s, pos, fmt, k, acc, Alts(fmt[k], s, pos), 1)

TryAlts(s, pos, fmt, k, acc, alts, i) ==
    IF i > Len(alts) THEN NoMatch
    ELSE LET r == MatchFmt(s, pos + alts[i][1], fmt, k + 1, Put(acc, fmt[k], alts[i][2]))
         IN  IF r # NoMatch THEN r ELSE TryAlts(s, pos, fmt, k, acc, alts, i + 1)

IsLeap(y) == (y % 4 = 0 /\ y % 100 # 0) \/ y % 400 = 0

DaysInMonth(y, m) ==
    IF m = 2 THEN (IF IsLeap(y) THEN 29 ELSE 28)
    ELSE IF m \in {4, 6, 9, 11} THEN 30 ELSE 31

\* datetime.strptime(s, fmt): the date, or Raise for the ValueError of a text that
\* does not match, of unconverted data after the match, and of a date that does
\* not exist (year 0, February 30)
strptime(s, fmt) ==
    LET r == MatchFmt(s, 1, fmt, 1, <<"date", 1900, 1, 1>>)
    IN  IF r = NoMatch THEN Raise
        ELSE IF r[2] # Len(s) + 1 THEN Raise
        ELSE IF r[1][2] < 1 \/ r[1][4] > DaysInMonth(r[1][2], r[1][3]) THEN Raise
        ELSE r[1]

Fmt_bdY == <<"%b", " ", "%d", ",", " ", "%Y">>
Fmt_Ymd == <<"%Y", "-", "%m", "-", "%d">>
Fmt_mdY == <<"%m", "/", "%d", "/", "%Y">>
Fmt_dmY == <<"%d", "/", "%m", "/", "%Y">>

\* The third format with day and month exchanged
DateFormatsDayFirst == <<Fmt_bdY, Fmt_Ymd, Fmt_dmY>>

DateFormats == <<Fmt_bdY, Fmt_Ymd, Fmt_mdY>>

\* The for loop of parse_date from format k on: the first format that does not
\* raise gives the result, pd.NaT when all raise
RECURSIVE TryFormats(_, _)
TryFormats(s, k) ==
    IF k > Len(DateFormats) THEN Null
    ELSE IF strptime(s, DateFormats[k]) # Raise THEN strptime(s, DateFormats[k])
    ELSE TryFormats(s, k + 1)

parse_date(s) == IF s = Null THEN Null ELSE TryFormats(s, 1)

-----------------------------------------------------------------------------
(* load_data                                                                *)

\* str.lower()
RECURSIVE Lower(_)
Lower(s) == IF s = <<>> THEN <<>> ELSE <<LowerChar(s[1])>> \o Lower(Tail(s))

Col_Date == <<"D", "a", "t", "e">>
Col_Name == <<"N", "a", "m", "e">>
Col_Location == <<"L", "o", "c", "a", "t", "i", "o", "n">>
Col_Payout == <<"P", "a", "y", "o", "u", "t">>
Col_Country == <<"C", "o", "u", "n", "t", "r", "y">>
Col_Amount == <<"A", "m", "o", "u", "n", "t">>

\* rename_map[col], or col itself when the map has no entry for it
Rename(col) ==
    LET c == Lower(Strip(col))
    IN  IF c = Lower(Col_Date) THEN Col_Date
        ELSE IF c = Lower(Col_Name) THEN Col_Name
        ELSE IF c \in {Lower(Col_Location), Lower(Col_Country)} THEN Col_Location
        ELSE IF c \in {Lower(Col_Payout), Lower(Col_Amount)} THEN Col_Payout
        ELSE col

\* df[name] of one source row after the rename; a column that is absent was
\* created holding pd.NA
Cell(header, row, name) ==
    IF \E i \in 1..Len(header) : Rename(header[i]) = name
    THEN row[CHOOSE i \in 1..Len(header) : Rename(header[i]) = name]
    ELSE Null

\* .dt.to_period('M').astype(str): "YYYY-MM", "NaT" for a missing date
YearMonth(date) ==
    IF date = Null THEN <<"N", "a", "T">>
    ELSE Pad(NatDigits(date[2]), 4) \o <<"-">> \o Pad(NatDigits(date[3]), 2)

\* One row with its derived columns; idx is the row's index label
Normalize(header, row, i) ==
    LET date == parse_date(Cell(header, row, Col_Date))
    IN  [idx |-> i - 1,
         Date |-> date,
         Name |-> Cell(header, row, Col_Name),
         Location |-> Cell(header, row, Col_Location),
         Payout |-> Cell(header, row, Col_Payout),
         YearMonth |-> IF date = Raise THEN Raise ELSE YearMonth(date),
         PayoutValue |-> parse_currency(Cell(header, row, Col_Payout)),
         Country |-> extract_country(Cell(header, row, Col_Location))]

\* dropna(subset=['PayoutValue']) only
DropNaPayoutOnly(rows) == SelectSeq(rows, LAMBDA r : r.PayoutValue # Null)

\* df.dropna(subset=['PayoutValue', 'Date'])
DropNa(rows) == SelectSeq(rows, LAMBDA r : r.PayoutValue # Null /\ r.Date # Null)

\* The rows i, i+1, ... of the file with their derived columns
RECURSIVE NormalizeFrom(_, _, _)
NormalizeFrom(header, srcrows, i) ==
    IF i > Len(srcrows) THEN <<>>
    ELSE <<Normalize(header, srcrows[i], i)>> \o NormalizeFrom(header, srcrows, i + 1)

\* An exception raised inside .apply leaves load_data
Raised(rows) == SelectSeq(rows, LAMBDA r : r.Date = Raise \/ r.PayoutValue = Raise) # <<>>

\* df['Date'].dt needs a datetime64 column.  The Series that .apply builds from
\* datetime and NaT results is one; on a table without rows .apply returns the
\* empty object column unchanged and .dt raises AttributeError.
HasDtAccessor(rows) == Len(rows) > 0

\* load_data(path) on the table read from the file: the normalized rows, or
\* Raise when an exception leaves it
load_data(src) ==
    CHOOSE out \in {IF Raised(rows) \/ ~HasDtAccessor(rows) THEN Raise
                    ELSE <<"df", DropNa(rows)>> :
                       rows \in {NormalizeFrom(src.header, src.rows, 1)}} : TRUE

Rows(table) == table[2]

-----------------------------------------------------------------------------
(* main: year filter, metrics and aggregations                              *)

\* Characters in code point order, for comparing texts
CharOrder ==
    <<"\t", " ", "$", "(", ")", ",", "-", ".", "/">> \o DigitChars \o UpperChars
    \o LowerChars

CharCode(c) == CHOOSE i \in 1..Len(CharOrder) : CharOrder[i] = c

\* a < b for texts, as Python compares str
RECURSIVE LessText(_, _)
LessText(a, b) ==
    IF b = <<>> THEN FALSE
    ELSE IF a = <<>> THEN TRUE
    ELSE IF a[1] # b[1] THEN CharCode(a[1]) < CharCode(b[1])
    ELSE LessText(Tail(a), Tail(b))

\* a < b for dates
LessDate(a, b) ==
    \/ a[2] < b[2]
    \/ a[2] = b[2] /\ a[3] < b[3]
    \/ a[2] = b[2] /\ a[3] = b[3] /\ a[4] < b[4]

\* Row a must come before row b when sorting by Date descending; NaT goes last
LaterDate(a, b) == a.Date # Null /\ (b.Date = Null \/ LessDate(b.Date, a.Date))

RECURSIVE SumValues(_)
SumValues(vs) == IF vs = <<>> THEN Zero ELSE Add(SumValues(SubSeq(vs, 1, Len(vs) - 1)), vs[Len(vs)])

RECURSIVE Column(_, _)
Column(rows, col) ==
    IF rows = <<>> THEN <<>> ELSE <<rows[1][col]>> \o Column(Tail(rows), col)

\* sorted({d.year for d in df['Date'].dropna()}), as a set
Years(rows) == {d[2] : d \in {rows[i].Date : i \in 1..Len(rows)} \ {Null}}

\* df['Date'].dt.year.isin(year_filter) of one row; the year of NaT is NaN
YearIsIn(r, sel) == r.Date # Null /\ r.Date[2] \in sel

\* df[df['Date'].dt.year.isin(year_filter)] without the `if year_filter:` guard
FilterAlways(rows, sel) == SelectSeq(rows, LAMBDA r : YearIsIn(r, sel))

\* if year_filter: df = df[df['Date'].dt.year.isin(year_filter)]
FilterYears(rows, sel) ==
    IF sel # {} THEN SelectSeq(rows, LAMBDA r : YearIsIn(r, sel)) ELSE rows

\* The texts of a set in ascending order
RECURSIVE SortedTexts(_)
SortedTexts(S) ==
    IF S = {} THEN <<>>
    ELSE LET lo == CHOOSE x \in S : \A y \in S : ~LessText(y, x)
         IN  <<lo>> \o SortedTexts(S \ {lo})

\* The rows of one group, in the order they have in the table
Group(rows, col, key) == SelectSeq(rows, LAMBDA r : r[col] = key)

\* .first() in place of .sum(): a group's first value
GroupTotalFirst(rows, col, key) == Group(rows, col, key)[1].PayoutValue

\* ['PayoutValue'].sum() of one group
GroupTotal(rows, col, key) == SumValues(Column(Group(rows, col, key), "PayoutValue"))

RECURSIVE Aggregate(_, _, _)
Aggregate(rows, col, keys) ==
    IF keys = <<>> THEN <<>>
    ELSE <<[key |-> keys[1], PayoutValue |-> GroupTotal(rows, col, keys[1])]>>
         \o Aggregate(rows, col, Tail(keys))

\* df.groupby(col, as_index=False)['PayoutValue'].sum(): one row per key, keys
\* ascending, each with the sum of its rows' values
GroupSum(rows, col) ==
    Aggregate(rows, col, SortedTexts({rows[i][col] : i \in 1..Len(rows)}))

IndexOrders(n) == {p \in [1..n -> 1..n] : \A i, j \in 1..n : p[i] = p[j] => i = j}

\* The orders of `rows` that put row i before row j for every <<i, j>> in
\* `before`.  sort_values sorts with kind='quicksort', which is not stable: rows
\* that `before` does not relate may come out in either order.
SortOutcomes(rows, before) ==
    {[i \in 1..Len(rows) |-> rows[p[i]]] : p \in
        {q \in IndexOrders(Len(rows)) :
            \A i \in 1..(Len(rows) - 1) : <<q[i + 1], q[i]>> \notin before}}

\* sort_values('PayoutValue'), ascending
SortByValueAsc(agg) ==
    SortOutcomes(agg, {ij \in (1..Len(agg)) \X (1..Len(agg)) :
                          Less(agg[ij[1]].PayoutValue, agg[ij[2]].PayoutValue)})

\* sort_values('PayoutValue', ascending=False)
SortByValueDesc(agg) ==
    SortOutcomes(agg, {ij \in (1..Len(agg)) \X (1..Len(agg)) :
                          Less(agg[ij[2]].PayoutValue, agg[ij[1]].PayoutValue)})

\* sort_values('YearMonth')
SortByKey(agg) ==
    SortOutcomes(agg, {ij \in (1..Len(agg)) \X (1..Len(agg)) :
                          LessText(agg[ij[1]].key, agg[ij[2]].key)})

\* sort_values('Date', ascending=False)
SortByDateDesc(rows) ==
    SortOutcomes(rows, {ij \in (1..Len(rows)) \X (1..Len(rows)) :
                           LaterDate(rows[ij[1]], rows[ij[2]])})

\* One run of main from the filter on, for the normalized rows and the
\* selection: what it displays
Display(rows, sel) ==
    \E df \in {FilterYears(rows, sel)} :
    \E by_country \in {GroupSum(df, "Country")}, by_month \in {GroupSum(df, "YearMonth")} :
    \E ca \in SortByValueDesc(by_country), ma \in SortByKey(by_month),
       raw \in SortByDateDesc(df) :
        view' = [df |-> df,
                 total_payout |-> SumValues(Column(df, "PayoutValue")),
                 total_records |-> Len(df),
                 country_agg |-> ca,
                 month_agg |-> ma,
                 raw |-> raw]

\* The previous run's filtered table in place of the cached one
RerunInputPrevious == view.df

\* df = load_data(CSV_PATH) on a rerun: the cached table
RerunInput == Rows(cache)

\* os.path.exists(CSV_PATH) is false: st.error, st.stop
RunMissingCsv ==
    /\ pc = "start"
    /\ ~source.exists
    /\ pc' = "stopped"
    /\ UNCHANGED <<fn_in, fn_out, source, cache, year_filter, view>>

\* The first run of the script: load_data misses the cache, the multiselect has
\* its default, all the years
FirstRun ==
    /\ pc = "start"
    /\ source.exists
    /\ \E table \in {load_data(source)} :
          IF table = Raise
          THEN /\ pc' = "aborted"
               /\ UNCHANGED <<cache, year_filter, view>>
          ELSE /\ pc' = "ready"
               /\ cache' = table
               /\ year_filter' = Years(Rows(table))
               /\ Display(Rows(table), Years(Rows(table)))
    /\ UNCHANGED <<fn_in, fn_out, source>>

\* The user changes the year selection: the script runs again from the top,
\* load_data hits the cache
Rerun ==
    /\ pc = "ready"
    /\ \E sel \in SUBSET Years(Rows(cache)) :
          /\ year_filter' = sel
          /\ Display(RerunInput, sel)
    /\ UNCHANGED <<fn_in, fn_out, pc, source, cache>>

-----------------------------------------------------------------------------
(* The parsers run alone: one call on one argument                          *)

\* The Streamlit script is not running
ScriptIdle ==
    /\ pc = "idle"
    /\ source = Null
    /\ cache = Null
    /\ year_filter = {}
    /\ view = Null

\* All texts over alphabet `A` of length at most n
TextsUpTo(A, n) == UNION {[1..k -> A] : k \in 0..n}

MaxCurLen == 4

CurAlphabet == {"-", "$", " ", "7", ".", ",", "("}

Cur_1234_56 == <<"$", "1", ",", "2", "3", "4", ".", "5", "6">>
Cur_plain == <<"1", "2", "3", "4", ".", "5", "6">>
Cur_neg50 == <<"-", "$", "5", "0">>
Cur_NA == <<"N", "/", "A">>
Cur_dash == <<"EMDASH">>
Cur_euro == <<"EURO", "1", "0", "0">>
Cur_usd == <<"U", "S", "D", " ", "1", "0", "0">>
Cur_paren == <<"(", "5", "0", ")">>
Cur_gap == <<"-", "$", " ", "5", "0">>

CurLiterals ==
    {Cur_1234_56, Cur_plain, Cur_neg50, Cur_NA, Cur_dash, Cur_euro, Cur_usd,
     Cur_paren, Cur_gap}

CurrencyInputs == {Null} \cup CurLiterals \cup TextsUpTo(CurAlphabet, MaxCurLen)

InitCurrency ==
    /\ fn_in \in CurrencyInputs
    /\ fn_out = Pending
    /\ ScriptIdle

CallParseCurrency ==
    /\ fn_out = Pending
    /\ fn_out' = parse_currency(fn_in)
    /\ UNCHANGED <<fn_in, pc, source, cache, year_filter, view>>

NextCurrency == CallParseCurrency

SpecCurrency == InitCurrency /\ [][NextCurrency]_vars

HasDigit(s) == \E i \in 1..Len(s) : IsDigit(s[i])

\* C5: parse_currency maps "$1,234.56" and "1234.56" to 1234.56 and "-$50" to
\* -50.0, and maps "N/A", the em dash, every text without a digit and a null
\* input to null.
C5_CurrencyExamples ==
    fn_out # Pending =>
        /\ fn_in = Cur_1234_56 => fn_out = <<"dec", 123456, 2>>
        /\ fn_in = Cur_plain => fn_out = <<"dec", 123456, 2>>
        /\ fn_in = Cur_neg50 => fn_out = <<"dec", 0 - 50, 0>>
        /\ fn_in \in {Cur_NA, Cur_dash, Null} => fn_out = Null
        /\ (fn_in # Null /\ ~HasDigit(fn_in)) => fn_out = Null

C5_Witness ==
    /\ fn_in = Cur_1234_56
    /\ fn_out = <<"dec", 123456, 2>>

\* Characters the pattern and the comma removal know about
NumberChars == Digits \cup Whitespace \cup {"-", "$", ".", ","}

HasForeignSymbol(s) == \E i \in 1..Len(s) : s[i] \notin NumberChars

\* C6 as stated: a text holding a symbol other than '$' before or around the
\* number (another currency symbol, a textual prefix, parentheses) parses to null.
C6_ForeignSymbolYieldsNull ==
    (fn_out # Pending /\ fn_in # Null /\ HasForeignSymbol(fn_in)) => fn_out = Null

\* The first digit of s is preceded by '-', an optional '$' and at least one
\* whitespace character: the matched token is "- <digits>", which float() rejects.
MinusGapBeforeNumber(s) ==
    LET j == CHOOSE j \in 1..Len(s) : IsDigit(s[j]) /\ \A k \in 1..(j - 1) : ~IsDigit(s[k])
        w == CHOOSE w \in 1..j : /\ \A k \in w..(j - 1) : IsSpace(s[k])
                                  /\ (w > 1 => ~IsSpace(s[w - 1]))
        b == IF w > 1 /\ s[w - 1] = "$" THEN w - 1 ELSE w
    IN  w < j /\ b > 1 /\ s[b - 1] = "-"

\* C6 as amended: the pattern is searched for anywhere in the comma-stripped
\* text, so other symbols around the number are skipped: "EURO 100" and
\* "USD 100" parse to 100.0 and "(50)" to 50.0.  The result is null exactly when
\* the text holds no digit or whitespace separates a leading '-' from the digits.
C6_SearchSkipsForeignSymbols ==
    (fn_out # Pending /\ fn_in # Null) =>
        /\ fn_out = Null <=>
               (~HasDigit(fn_in) \/ MinusGapBeforeNumber(RemoveChar(fn_in, ",")))
        /\ fn_in \in {Cur_euro, Cur_usd} => fn_out = <<"dec", 100, 0>>
        /\ fn_in = Cur_paren => fn_out = <<"dec", 50, 0>>

C6_Witness ==
    /\ fn_in = Cur_paren
    /\ fn_out = <<"dec", 50, 0>>

-----------------------------------------------------------------------------

MaxLocLen == 4

LocAlphabet == {",", " ", "U", "S", "K"}

Loc_Springfield ==
    <<"S", "p", "r", "i", "n", "g", "f", "i", "e", "l", "d", ",", " ", "U", "S", "A">>
Loc_London == <<"L", "o", "n", "d", "o", "n", ",", " ", "U", ".", "K", ".">>
Loc_Mars == <<"M", "a", "r", "s">>
Loc_Austin == <<"A", "u", "s", "t", "i", "n", ",", " ", "T", "X", ",", " ">> \o Txt_UnitedStates
Loc_Leeds == <<" ", "L", "e", "e", "d", "s", " ", ",">> \o Txt_UnitedKingdom \o <<" ", ",", " ">>
Loc_lower == <<"N", "Y", ",", "u", "s", "a">>
Loc_dotted == <<"L", "A", ",", "\t">> \o Txt_U_S_A

LocLiterals ==
    {Loc_Springfield, Loc_London, Loc_Mars, Loc_Austin, Loc_Leeds, Loc_lower, Loc_dotted}

LocationInputs == {Null} \cup LocLiterals \cup TextsUpTo(LocAlphabet, MaxLocLen)

InitCountry ==
    /\ fn_in \in LocationInputs
    /\ fn_out = Pending
    /\ ScriptIdle

CallExtractCountry ==
    /\ fn_out = Pending
    /\ fn_out' = extract_country(fn_in)
    /\ UNCHANGED <<fn_in, pc, source, cache, year_filter, view>>

NextCountry == CallExtractCountry

SpecCountry == InitCountry /\ [][NextCountry]_vars

\* The last comma-separated segment of s that is not blank, trimmed: it ends at
\* the last character of s that is neither a comma nor whitespace and starts at
\* the first non-blank character after the comma before it.
LastSegment(s) ==
    LET solid == {i \in 1..Len(s) : s[i] # "," /\ ~IsSpace(s[i])}
        hi    == CHOOSE i \in solid : \A j \in solid : j <= i
        lo    == CHOOSE i \in solid :
                    /\ \A k \in i..hi : s[k] # ","
                    /\ \A j \in solid : (j < i) => \E k \in j..i : s[k] = ","
    IN  SubSeq(s, lo, hi)

HasSegment(s) == \E i \in 1..Len(s) : s[i] # "," /\ ~IsSpace(s[i])

\* The canonical form the claim gives for a segment
Canonical(seg) ==
    IF seg \in {Txt_USA, Txt_US, Txt_U_S_A, Txt_UnitedStates} THEN Txt_USA
    ELSE IF seg \in {Txt_UK, Txt_U_K, Txt_UnitedKingdom} THEN Txt_UK
    ELSE seg

\* C7: extract_country returns the last non-empty trimmed comma-separated
\* segment, canonicalised when it is one of the fixed synonyms and verbatim
\* otherwise, and "Unknown" for a null location or one without such a segment.
C7_CountryIsLastSegment ==
    fn_out # Pending =>
        /\ (fn_in = Null \/ ~HasSegment(fn_in)) => fn_out = Txt_Unknown
        /\ (fn_in # Null /\ HasSegment(fn_in)) => fn_out = Canonical(LastSegment(fn_in))
        /\ fn_in = Loc_Springfield => fn_out = Txt_USA
        /\ fn_in = Loc_London => fn_out = Txt_UK
        /\ fn_in = Loc_Mars => fn_out = Loc_Mars

C7_Witness ==
    /\ fn_in = Loc_London
    /\ fn_out = Txt_UK

-----------------------------------------------------------------------------

UpperChar(c) ==
    IF \E i \in 1..Len(LowerChars) : LowerChars[i] = c
    THEN UpperChars[CHOOSE i \in 1..Len(LowerChars) : LowerChars[i] = c]
    ELSE c

\* "Jan", "Feb", ...
MonthName(m) == <<UpperChar(MonthAbbr[m][1]), MonthAbbr[m][2], MonthAbbr[m][3]>>

DateYears == {0, 2023, 2024}
DateMonths == {0, 1, 2, 4, 12, 13}
DateDays == {0, 1, 5, 12, 29, 30, 31, 32}

SupportedLayouts == {"Mon DD, YYYY", "YYYY-MM-DD", "MM/DD/YYYY"}

OtherLayouts == {"DD-Mon-YYYY", "YYYY/MM/DD", "Mon DD YYYY", "MM-DD-YYYY", "YYYYMMDD"}

DateCases ==
    [layout : SupportedLayouts \cup OtherLayouts, y : DateYears, m : DateMonths,
     d : DateDays, padded : BOOLEAN]

\* The text of a date in a layout, day and month zero-padded or not
Render(c) ==
    LET Y == Pad(NatDigits(c.y), 4)
        M == IF c.padded THEN Pad(NatDigits(c.m), 2) ELSE NatDigits(c.m)
        D == IF c.padded THEN Pad(NatDigits(c.d), 2) ELSE NatDigits(c.d)
        B == IF c.m \in 1..12 THEN MonthName(c.m) ELSE <<"X", "x", "x">>
    IN  CASE c.layout = "Mon DD, YYYY" -> B \o <<" ">> \o D \o <<",", " ">> \o Y
          [] c.layout = "YYYY-MM-DD" -> Y \o <<"-">> \o M \o <<"-">> \o D
          [] c.layout = "MM/DD/YYYY" -> M \o <<"/">> \o D \o <<"/">> \o Y
          [] c.layout = "DD-Mon-YYYY" -> D \o <<"-">> \o B \o <<"-">> \o Y
          [] c.layout = "YYYY/MM/DD" -> Y \o <<"/">> \o M \o <<"/">> \o D
          [] c.layout = "Mon DD YYYY" -> B \o <<" ">> \o D \o <<" ">> \o Y
          [] c.layout = "MM-DD-YYYY" -> M \o <<"-">> \o D \o <<"-">> \o Y
          [] c.layout = "YYYYMMDD" -> Y \o M \o D

\* Each case with its text
DateCaseTexts == {<<Render(c), c>> : c \in DateCases}

Date_Jan5 == <<"J", "a", "n", " ", "5", ",", " ", "2", "0", "2", "3">>
Date_iso == <<"2", "0", "2", "3", "-", "0", "1", "-", "0", "5">>
Date_us == <<"0", "1", "/", "0", "5", "/", "2", "0", "2", "3">>
Date_dby == <<"0", "5", "-", "J", "a", "n", "-", "2", "0", "2", "3">>
Date_lower == <<"j", "a", "n", " ", " ", "5", ",", "\t", "2", "0", "2", "3">>
Date_trailing == <<"2", "0", "2", "3", "-", "0", "1", "-", "0", "5", " ">>
Date_time == <<"2", "0", "2", "3", "-", "0", "1", "-", "0", "5", "T", "0", "0">>
Date_empty == << >>

DateLiterals ==
    {Date_Jan5, Date_iso, Date_us, Date_dby, Date_lower, Date_trailing, Date_time,
     Date_empty}

DateInputs == {Null} \cup DateLiterals \cup {p[1] : p \in DateCaseTexts}

InitDate ==
    /\ fn_in \in DateInputs
    /\ fn_out = Pending
    /\ ScriptIdle

CallParseDate ==
    /\ fn_out = Pending
    /\ fn_out' = parse_date(fn_in)
    /\ UNCHANGED <<fn_in, pc, source, cache, year_filter, view>>

NextDate == CallParseDate

SpecDate == InitDate /\ [][NextDate]_vars

\* A date of the calendar
IsCalendarDate(y, m, d) ==
    /\ y >= 1
    /\ m \in 1..12
    /\ d >= 1
    /\ d <= (IF m = 2 THEN (IF (y % 4 = 0 /\ y % 100 # 0) \/ y % 400 = 0 THEN 29 ELSE 28)
              ELSE IF m \in {4, 6, 9, 11} THEN 30 ELSE 31)

\* C8: a text in one of the three supported layouts parses to the calendar date
\* it writes, whichever of the three it is in ("Jan 5, 2023", "2023-01-05" and
\* "01/05/2023" all give 2023-01-05); a text in no supported layout (such as
\* "05-Jan-2023"), a date that does not exist, and a null value give null.
C8_DateFormats ==
    fn_out # Pending =>
        /\ fn_in \in {Date_Jan5, Date_iso, Date_us} => fn_out = <<"date", 2023, 1, 5>>
        /\ fn_in \in {Date_dby, Null} => fn_out = Null
        /\ \A p \in DateCaseTexts :
              p[1] = fn_in =>
                 fn_out = IF /\ p[2].layout \in SupportedLayouts
                             /\ IsCalendarDate(p[2].y, p[2].m, p[2].d)
                          THEN <<"date", p[2].y, p[2].m, p[2].d>>
                          ELSE Null

C8_Witness ==
    /\ fn_in = Date_us
    /\ fn_out = <<"date", 2023, 1, 5>>

-----------------------------------------------------------------------------
(* The dashboard: a CSV, the first run, then year selections                *)

MaxRows == 3

Hdr_plain == <<Col_Date, Col_Name, Col_Location, Col_Payout>>
Hdr_synonyms ==
    <<<<"A", "m", "o", "u", "n", "t", " ">>, <<" ", "d", "a", "t", "e">>,
      <<"N", "A", "M", "E">>, Col_Country>>
Hdr_noDate == <<Col_Name, Col_Location, Col_Payout>>
Hdr_noPayout == <<Col_Date, Col_Name, Col_Location>>

Headers == {Hdr_plain, Hdr_synonyms, Hdr_noDate, Hdr_noPayout}

Cell_Jan2023 == <<"J", "a", "n", " ", "1", ",", " ", "2", "0", "2", "3">>
Cell_Feb2024 == <<"2", "0", "2", "4", "-", "0", "2", "-", "0", "2">>
Cell_Feb30 == <<"0", "2", "/", "3", "0", "/", "2", "0", "2", "3">>
Cell_100 == <<"$", "1", "0", "0">>
Cell_250_5 == <<"2", "5", "0", ".", "5">>
Cell_gap50 == <<"-", " ", "5", "0">>
Cell_NYC == <<"N", "Y", "C", ",", " ", "U", "S", "A">>
Cell_Ann == <<"A", "n", "n">>

\* The records a file may hold: two years, three countries, equal and unequal
\* payouts, a date that does not exist, a payout float() rejects, a missing
\* location
RecordPool ==
    {[Date |-> Cell_Jan2023, Name |-> Cell_Ann, Location |-> Cell_NYC, Payout |-> Cell_100],
     [Date |-> Cell_Feb2024, Name |-> Cell_Ann, Location |-> Txt_UK, Payout |-> Cell_100],
     [Date |-> Cell_Jan2023, Name |-> Cell_Ann, Location |-> Txt_UK, Payout |-> Cell_250_5],
     [Date |-> Cell_Feb30, Name |-> Cell_Ann, Location |-> Txt_UK, Payout |-> Cell_100],
     [Date |-> Cell_Jan2023, Name |-> Cell_Ann, Location |-> Cell_NYC, Payout |-> Cell_gap50],
     [Date |-> Cell_Feb2024, Name |-> Cell_Ann, Location |-> Null, Payout |-> Cell_100]}

\* The cell of a record under a column of the file
Field(rec, col) ==
    IF Rename(col) = Col_Date THEN rec.Date
    ELSE IF Rename(col) = Col_Name THEN rec.Name
    ELSE IF Rename(col) = Col_Location THEN rec.Location
    ELSE rec.Payout

\* The line of the file that holds a record, from column k on
RECURSIVE SourceRow(_, _, _)
SourceRow(header, rec, k) ==
    IF k > Len(header) THEN <<>>
    ELSE <<Field(rec, header[k])>> \o SourceRow(header, rec, k + 1)

\* The tables of at most n rows drawn from R
RECURSIVE Tables(_, _)
Tables(R, n) ==
    IF n = 0 THEN {<<>>}
    ELSE Tables(R, n - 1) \cup {Append(tb, r) : tb \in Tables(R, n - 1), r \in R}

SourcesWith(h) ==
    {[exists |-> TRUE, header |-> h, rows |-> tb] :
        tb \in Tables({SourceRow(h, rec, 1) : rec \in RecordPool}, MaxRows)}

Sources ==
    {[exists |-> FALSE, header |-> <<>>, rows |-> <<>>]}
    \cup UNION {SourcesWith(h) : h \in Headers}

Init ==
    /\ fn_in = Null
    /\ fn_out = Pending
    /\ pc = "start"
    /\ source \in Sources
    /\ cache = Null
    /\ year_filter = {}
    /\ view = Null

Next ==
    \/ RunMissingCsv
    \/ FirstRun
    \/ Rerun

Spec == Init /\ [][Next]_vars

Loaded == pc = "ready"

\* C1: the table load_data returns holds no record with a null Date or a null
\* PayoutValue, whatever the file holds and whichever columns it lacks.
C1_NoNullInNormalized ==
    Loaded => \A i \in 1..Len(Rows(cache)) :
                 Rows(cache)[i].Date # Null /\ Rows(cache)[i].PayoutValue # Null

\* A file whose rows were partly dropped
C1_Witness ==
    /\ Loaded
    /\ Len(Rows(cache)) > 0
    /\ Len(Rows(cache)) < Len(source.rows)

\* The lines of the file whose Date and Payout both parse, by position
ParsingLines ==
    {i \in 1..Len(source.rows) :
        /\ parse_date(Cell(source.header, source.rows[i], Col_Date)) # Null
        /\ parse_currency(Cell(source.header, source.rows[i], Col_Payout)) # Null}

\* C2: load_data never aborts, and its table holds exactly the lines of the
\* file whose Date and Payout both parse, each once, unchanged and in file order.
C2_LoadCompletesKeepingGoodRows ==
    /\ pc # "aborted"
    /\ Loaded =>
          /\ Len(Rows(cache)) = Cardinality(ParsingLines)
          /\ \A k \in 1..Len(Rows(cache)) :
                /\ Rows(cache)[k].idx + 1 \in ParsingLines
                /\ k > 1 => Rows(cache)[k - 1].idx < Rows(cache)[k].idx
                /\ Rows(cache)[k].Payout =
                      Cell(source.header, source.rows[Rows(cache)[k].idx + 1], Col_Payout)

\* The rows of a sequence as a set
Range(seq) == {seq[i] : i \in 1..Len(seq)}

\* C3: with an empty year selection nothing is filtered: the metrics, the
\* aggregations and the raw view are those of the whole normalized table.
C3_EmptySelectionKeepsAll ==
    (Loaded /\ year_filter = {}) =>
        /\ view.df = Rows(cache)
        /\ view.total_records = Len(Rows(cache))
        /\ view.total_payout = SumValues(Column(Rows(cache), "PayoutValue"))
        /\ Range(view.raw) = Range(Rows(cache))
        /\ {g.key : g \in Range(view.country_agg)} = Range(Column(Rows(cache), "Country"))
        /\ {g.key : g \in Range(view.month_agg)} = Range(Column(Rows(cache), "YearMonth"))

\* An empty selection over a table with rows of two years
C3_Witness ==
    /\ Loaded
    /\ year_filter = {}
    /\ Cardinality(Years(Rows(cache))) = 2
    /\ view.total_records = Len(Rows(cache))

OnePerCountry ==
    /\ Len(view.country_agg) = Cardinality(Range(Column(view.df, "Country")))
    /\ {g.key : g \in Range(view.country_agg)} = Range(Column(view.df, "Country"))

Descending ==
    \A i \in 1..(Len(view.country_agg) - 1) :
        ~Less(view.country_agg[i].PayoutValue, view.country_agg[i + 1].PayoutValue)

\* Countries with equal sums are in the order the grouping gave them, which is
\* ascending by Country
TiesInGroupingOrder ==
    \A i \in 1..(Len(view.country_agg) - 1) :
        view.country_agg[i].PayoutValue = view.country_agg[i + 1].PayoutValue
            => LessText(view.country_agg[i].key, view.country_agg[i + 1].key)

\* C9 as stated: one row per distinct Country of the filtered set, descending by
\* summed PayoutValue, countries with equal sums in grouping order (stable sort).
C9_StableDescending == Loaded => (OnePerCountry /\ Descending /\ TiesInGroupingOrder)

\* C9 as amended: one row per distinct Country of the filtered set, each with the
\* sum of its records, descending by summed PayoutValue; the order of countries
\* with equal sums is not determined.
C9_DescendingOnePerCountry ==
    Loaded =>
        /\ OnePerCountry
        /\ Descending
        /\ \A g \in Range(view.country_agg) :
              g.PayoutValue =
                  SumValues(Column(SelectSeq(view.df, LAMBDA r : r.Country = g.key),
                                   "PayoutValue"))

\* Two countries with unequal sums
C9_Witness ==
    /\ Loaded
    /\ Len(view.country_agg) = 2
    /\ Less(view.country_agg[2].PayoutValue, view.country_agg[1].PayoutValue)

\* What is displayed follows from the cached table and the current selection
ViewFollowsFrom(rows, sel) ==
    /\ view.df = SelectSeq(rows, LAMBDA r : sel = {} \/ r.Date[2] \in sel)
    /\ view.total_records = Len(view.df)
    /\ view.total_payout = SumValues(Column(view.df, "PayoutValue"))
    /\ view.country_agg \in SortByValueDesc(GroupSum(view.df, "Country"))
    /\ view.month_agg \in SortByKey(GroupSum(view.df, "YearMonth"))
    /\ view.raw \in SortByDateDesc(view.df)

\* C10: over any sequence of selections the cached table never changes, and
\* what is displayed after each one follows from the cached table and the
\* current selection alone.
C10_CacheFrozenViewRecomputed ==
    /\ [][cache # Null => cache' = cache]_vars
    /\ [](Loaded => ViewFollowsFrom(Rows(cache), year_filter))

\* A selection of one year out of two
C10_Witness ==
    /\ Loaded
    /\ Cardinality(Years(Rows(cache))) = 2
    /\ year_filter = {2023}
    /\ view.total_records = 1

=============================================================================
